---------------------------- MODULE Spec2Model ----------------------------
(***************************************************************************)
(* A model of notebooks/rag_implementation.ipynb: a retrieval-augmented    *)
(* generation pipeline.  The notebook extracts a text, splits it with      *)
(* langchain's RecursiveCharacterTextSplitter, numbers the chunks, writes  *)
(* them to a Delta table, (re)creates a vector search endpoint and a delta *)
(* sync index over the table, and then queries the index and prompts a     *)
(* chat model with the search result.                                      *)
(*                                                                         *)
(* Texts are sequences of one-character strings.  The calls the notebook   *)
(* makes into langchain, pandas, Delta and Databricks Vector Search are    *)
(* modelled by what the called code does, at the place of the call.        *)
(***************************************************************************)
EXTENDS Integers, Sequences, FiniteSets, TLC

(***************************************************************************)
(* Bounds of the model.                                                    *)
(***************************************************************************)
MaxTextLen == 5        \* longest text given to the splitter alone
MaxChunkSize == 3      \* largest chunk_size / chunk_overlap tried on the splitter
MaxDocLen == 2         \* longest extracted text of a pipeline run
MaxRuns == 2           \* ingestion runs of the notebook
MaxK == 2              \* largest num_results of a search
MaxPipeChunk == 2      \* largest chunk_size of a pipeline run

Chars == {"a", "b", " ", "\n"}
PipeChars == {"a", " "}
Whitespace == {" ", "\n"}

Min(a, b) == IF a < b THEN a ELSE b

\* All sequences over S of length at most n.
SeqsUpTo(S, n) == UNION {[1..k -> S] : k \in 0..n}

(***************************************************************************)
(* Python string helpers used by the splitter.                             *)
(***************************************************************************)
\* s[i:] == SubSeq(s, i+1, Len(s));  s.startswith(p, at position i)
StartsWithAt(s, p, i) ==
    /\ i + Len(p) - 1 <= Len(s)
    /\ \A j \in 1..Len(p) : s[i + j - 1] = p[j]

\* re.search(re.escape(sep), text) for a non-empty literal sep.
Contains(s, p) == \E i \in 1..Len(s) : StartsWithAt(s, p, i)

\* Position of the leftmost match of p in s (0 when there is none).
FirstMatch(s, p) ==
    IF Contains(s, p)
    THEN CHOOSE i \in 1..Len(s) :
            /\ StartsWithAt(s, p, i)
            /\ \A j \in 1..(i - 1) : ~StartsWithAt(s, p, j)
    ELSE 0

\* re.split(sep, text) without the separators: the pieces between the
\* leftmost non-overlapping matches.
RECURSIVE Pieces(_, _)
Pieces(s, p) ==
    LET i == FirstMatch(s, p) IN
    IF i = 0 THEN <<s>>
    ELSE <<SubSeq(s, 1, i - 1)>> \o Pieces(SubSeq(s, i + Len(p), Len(s)), p)

\* str.strip()
RECURSIVE LStrip(_)
LStrip(s) == IF s # <<>> /\ Head(s) \in Whitespace THEN LStrip(Tail(s)) ELSE s

RECURSIVE RStrip(_)
RStrip(s) ==
    IF s # <<>> /\ s[Len(s)] \in Whitespace
    THEN RStrip(SubSeq(s, 1, Len(s) - 1)) ELSE s

Strip(s) == RStrip(LStrip(s))

\* separator.join(docs)
RECURSIVE Join(_, _)
Join(docs, sep) ==
    IF docs = <<>> THEN <<>>
    ELSE IF Len(docs) = 1 THEN docs[1]
    ELSE docs[1] \o sep \o Join(Tail(docs), sep)

(***************************************************************************)
(* langchain_text_splitters, as called at rag_implementation.ipynb:209-212 *)
(***************************************************************************)
\* RecursiveCharacterTextSplitter's default separators: "\n\n", "\n", " ", "".
Separators == << <<"\n", "\n">>, <<"\n">>, <<" ">>, <<>> >>

\* TextSplitter.__init__: the parameter validation (raises ValueError).
\* Every release of the library raises when chunk_overlap > chunk_size.
SplitterRejects(cs, ov) == ov > cs

\* Some releases also raise for chunk_size <= 0 and for chunk_overlap < 0,
\* others accept them.  The install cell (line 64, pip install -U) pins no
\* release of langchain-text-splitters, so for these parameters the
\* constructor either raises or returns.
SplitterMayReject(cs, ov) == cs <= 0 \/ ov < 0

\* Stands in a list of chunks for the IndexError of _merge_splits; no chunk
\* equals it, a chunk being a sequence of characters.
IndexErrorMark == <<"IndexError">>

\* _split_text_with_regex(text, separator, keep_separator=True): with a
\* separator, each separator is kept at the start of the piece after it; with
\* the empty separator the text is split into characters.  Empty pieces go.
SplitWithRegex(s, sep) ==
    LET ps == Pieces(s, sep)
        splits == IF sep = <<>>
                  THEN [i \in 1..Len(s) |-> <<s[i]>>]
                  ELSE [i \in 1..Len(ps) |-> IF i = 1 THEN ps[1] ELSE sep \o ps[i]]
    IN SelectSeq(splits, LAMBDA x : x # <<>>)

\* TextSplitter._join_docs with strip_whitespace=True: <<>> stands for None.
JoinDocs(docs, sep) == Strip(Join(docs, sep))

\* The "keep on popping" loop of _merge_splits.  With a negative overlap the
\* loop still runs when current_doc is empty and current_doc[0] raises
\* IndexError (err).
RECURSIVE PopWhile(_, _, _, _, _, _)
PopWhile(cur, total, len, seplen, cs, ov) ==
    IF \/ total > ov
       \/ /\ total + len + (IF Len(cur) > 0 THEN seplen ELSE 0) > cs
          /\ total > 0
    THEN IF cur = <<>>
         THEN [cur |-> cur, total |-> total, err |-> TRUE]
         ELSE PopWhile(Tail(cur),
                       total - (Len(cur[1]) + (IF Len(cur) > 1 THEN seplen ELSE 0)),
                       len, seplen, cs, ov)
    ELSE [cur |-> cur, total |-> total, err |-> FALSE]

\* TextSplitter._merge_splits: st is the loop's state after the first i splits.
RECURSIVE MergeLoop(_, _, _, _, _, _)
MergeLoop(splits, i, st, sep, cs, ov) ==
    IF i > Len(splits) \/ st.err THEN st
    ELSE
      LET d == splits[i]
          len == Len(d)
          seplen == Len(sep)
          over == st.total + len + (IF Len(st.cur) > 0 THEN seplen ELSE 0) > cs
          flush == over /\ Len(st.cur) > 0
          doc == JoinDocs(st.cur, sep)
          docs1 == IF flush /\ doc # <<>> THEN Append(st.docs, doc) ELSE st.docs
          popped == IF flush
                    THEN PopWhile(st.cur, st.total, len, seplen, cs, ov)
                    ELSE [cur |-> st.cur, total |-> st.total, err |-> FALSE]
          cur2 == Append(popped.cur, d)
          total2 == popped.total + len + (IF Len(cur2) > 1 THEN seplen ELSE 0)
      IN MergeLoop(splits, i + 1,
                   [docs |-> docs1, cur |-> cur2, total |-> total2,
                    err |-> popped.err], sep, cs, ov)

\* A _merge_splits that forgets the chunk still open when the splits end.
MergeSplitsNoFinalDoc(splits, sep, cs, ov) ==
    MergeLoop(splits, 1, [docs |-> <<>>, cur |-> <<>>, total |-> 0, err |-> FALSE],
              sep, cs, ov).docs

MergeSplits(splits, sep, cs, ov) ==
    LET st == MergeLoop(splits, 1,
                        [docs |-> <<>>, cur |-> <<>>, total |-> 0, err |-> FALSE],
                        sep, cs, ov)
        doc == JoinDocs(st.cur, sep)
    IN IF st.err THEN <<IndexErrorMark>>
       ELSE IF doc # <<>> THEN Append(st.docs, doc) ELSE st.docs

\* The separator _split_text picks: the first of seps that is "" or occurs in
\* the text; the separators after it are left for the recursion.
RECURSIVE PickSeparator(_, _, _)
PickSeparator(s, seps, i) ==
    IF i > Len(seps) THEN [sep |-> seps[Len(seps)], rest |-> <<>>]
    ELSE IF seps[i] = <<>> THEN [sep |-> <<>>, rest |-> <<>>]
    ELSE IF Contains(s, seps[i])
         THEN [sep |-> seps[i], rest |-> SubSeq(seps, i + 1, Len(seps))]
    ELSE PickSeparator(s, seps, i + 1)

\* RecursiveCharacterTextSplitter._split_text.  keep_separator is True, so the
\* merge joins with the empty separator.
RECURSIVE SplitText(_, _, _, _)
RECURSIVE SplitLoop(_, _, _, _, _, _, _)
SplitLoop(splits, i, final, good, rest, cs, ov) ==
    IF i > Len(splits)
    THEN IF good # <<>> THEN final \o MergeSplits(good, <<>>, cs, ov) ELSE final
    ELSE
      LET s == splits[i] IN
      IF Len(s) < cs
      THEN SplitLoop(splits, i + 1, final, Append(good, s), rest, cs, ov)
      ELSE
        LET merged == IF good # <<>> THEN MergeSplits(good, <<>>, cs, ov) ELSE <<>>
            other == IF rest = <<>> THEN <<s>> ELSE SplitText(s, rest, cs, ov)
        IN SplitLoop(splits, i + 1, final \o merged \o other, <<>>, rest, cs, ov)

SplitText(s, seps, cs, ov) ==
    LET pick == PickSeparator(s, seps, 1)
        splits == SplitWithRegex(s, pick.sep)
    IN SplitLoop(splits, 1, <<>>, <<>>, pick.rest, cs, ov)

\* text_splitter.create_documents([raw_text]): one Document per chunk; the
\* model keeps each Document's page_content.
CreateDocuments(s, cs, ov) == SplitText(s, Separators, cs, ov)

\* Whether create_documents raises the IndexError of _merge_splits.
CreateDocumentsRaises(s, cs, ov) ==
    LET ds == SplitText(s, Separators, cs, ov)
    IN \E i \in 1..Len(ds) : ds[i] = IndexErrorMark


(***************************************************************************)
(* pandas and the Delta table, rag_implementation.ipynb:279-348            *)
(***************************************************************************)
\* Document.dict() has these keys; pd.DataFrame([]) of no documents has no
\* columns at all.
DocumentKeys == <<"id", "metadata", "page_content", "type">>

\* pd.DataFrame([doc.dict() for doc in docs]): one row per chunk, in order.
\* A row's id_pk is 0 until the column is inserted.
DataFrame(ds) ==
    [cols |-> IF ds = <<>> THEN <<>> ELSE DocumentKeys,
     rows |-> [i \in 1..Len(ds) |-> [id_pk |-> 0, page_content |-> ds[i]]]]

\* range(0, len(pd_docs)): ids that start at 0.
IdRangeFromZero(n) == [i \in 1..n |-> i - 1]

\* range(1, len(pd_docs) + 1)
IdRange(n) == [i \in 1..n |-> i]

\* pd_docs.insert(0, "id_pk", range(1, len(pd_docs) + 1))
InsertIdPk(df) ==
    [cols |-> <<"id_pk">> \o df.cols,
     rows |-> [i \in 1..Len(df.rows) |->
                 [df.rows[i] EXCEPT !.id_pk = IdRange(Len(df.rows))[i]]]]

HasColumn(df, c) == \E i \in 1..Len(df.cols) : df.cols[i] = c

\* mode("append"): the rows are added to the table's.
WriteAppend(old, rows) == old \o rows

\* mode("overwrite"): the table's rows are replaced.
WriteOverwrite(old, rows) == rows

(***************************************************************************)
(* Databricks Vector Search, rag_implementation.ipynb:401-424, 490-520     *)
(***************************************************************************)
NoIndex == [state |-> "absent", rows |-> <<>>, gen |-> 0, first_sync_run |-> 0]

Range(f) == {f[i] : i \in DOMAIN f}

\* The similarity of a chunk to the query text.  The embedding model and the
\* search service are not part of the repository: the score stands for
\* theirs, as some fixed function of (query, content).
Score(q, c) == Cardinality({i \in 1..Len(c) : c[i] \in Range(q)})

\* The rows a query returns, as the specification's Retrieval Result has
\* them (the service's code is not part of the repository): min(k, N)
\* distinct rows of the index, best score first; rows of equal score come in
\* either order.
Hits(rows, q, k) ==
    LET n == Min(k, Len(rows))
        picks == {p \in [1..n -> 1..Len(rows)] :
                    /\ \A i, j \in 1..n : i # j => p[i] # p[j]
                    /\ \A i \in 1..(n - 1) :
                          Score(q, rows[p[i]].page_content)
                            >= Score(q, rows[p[i + 1]].page_content)
                    /\ \A i \in 1..n : \A m \in (1..Len(rows)) \ Range(p) :
                          Score(q, rows[p[i]].page_content)
                            >= Score(q, rows[m].page_content)}
    IN {[i \in 1..n |-> [id_pk |-> rows[p[i]].id_pk,
                         page_content |-> rows[p[i]].page_content,
                         score |-> Score(q, rows[p[i]].page_content)]]
          : p \in picks}

\* index.similarity_search(query_text, columns, num_results) on a ready index.
SimilaritySearch(rows, q, k) == Hits(rows, q, k)

NoResults == [row_count |-> 0, data_array |-> <<>>]

(***************************************************************************)
(* The prompt, rag_implementation.ipynb:545                                *)
(***************************************************************************)
Digit(n) ==
    CASE n = 0 -> "0" [] n = 1 -> "1" [] n = 2 -> "2" [] n = 3 -> "3"
      [] n = 4 -> "4" [] n = 5 -> "5" [] n = 6 -> "6" [] n = 7 -> "7"
      [] n = 8 -> "8" [] n = 9 -> "9"

\* str(n) of a natural number.
RECURSIVE IntStr(_)
IntStr(n) == IF n < 10 THEN Digit(n) ELSE IntStr(n \div 10) \o Digit(n % 10)

\* The Python string of a sequence of characters.
RECURSIVE ToStr(_)
ToStr(s) == IF s = <<>> THEN "" ELSE Head(s) \o ToStr(Tail(s))

\* The contents of the retrieved rows, one after the other.
RECURSIVE ConcatContents(_)
ConcatContents(arr) ==
    IF arr = <<>> THEN ""
    ELSE ToStr(arr[1].page_content) \o ConcatContents(Tail(arr))

\* repr() of a Python string, as str() of a list prints its strings: inside
\* quotes (double quotes when the string holds a single quote and no double
\* one), with the backslash, the quote and the control characters escaped.
ReprQuote(s) ==
    IF (\E i \in 1..Len(s) : s[i] = "'") /\ ~(\E i \in 1..Len(s) : s[i] = "\"")
    THEN "\"" ELSE "'"

ReprChar(c, q) ==
    CASE c = "\\" -> "\\\\"
      [] c = "\n" -> "\\n"
      [] c = "\t" -> "\\t"
      [] c = "\r" -> "\\r"
      [] c = q -> "\\" \o q
      [] OTHER -> c

RECURSIVE ReprChars(_, _)
ReprChars(s, q) ==
    IF s = <<>> THEN "" ELSE ReprChar(Head(s), q) \o ReprChars(Tail(s), q)

Repr(s) == ReprQuote(s) \o ReprChars(s, ReprQuote(s)) \o ReprQuote(s)

RowStr(r) ==
    "[" \o IntStr(r.id_pk) \o ", " \o Repr(r.page_content) \o ", "
        \o IntStr(r.score) \o "]"

RECURSIVE RowsStr(_)
RowsStr(arr) ==
    IF arr = <<>> THEN ""
    ELSE IF Len(arr) = 1 THEN RowStr(arr[1])
    ELSE RowStr(arr[1]) \o ", " \o RowsStr(Tail(arr))

\* str(results_dict): the printed form of the whole search response, the
\* column manifest and then every row with its id, content and score.
DictStr(res) ==
    "{'manifest': {'column_count': 3, 'columns': [{'name': 'id_pk'}, "
      \o "{'name': 'page_content'}, {'name': 'score'}]}, 'result': {'row_count': "
      \o IntStr(res.row_count) \o ", 'data_array': [" \o RowsStr(res.data_array)
      \o "]}}"

PromptPrefix == "Answer Question "
PromptQuestion == " Question: Who is the data Fudiciary?"

\* A prompt of the retrieved contents and the question alone.
ContentsPrompt(res) == ConcatContents(res.data_array) \o PromptQuestion

\* "Answer Question " + str(results_dict) + " Question: ..."
BuildInput(res) == PromptPrefix \o DictStr(res) \o PromptQuestion

(***************************************************************************)
(* The state.                                                              *)
(*  pc, qpc        the next statement of the ingestion cells and of the    *)
(*                 query cells ("done", "failed": the cells have ended)    *)
(*  text .. pd_docs, spark_df   the notebook's variables of the same names *)
(*  tbl            the Delta table workspace.default.dpact_chunks          *)
(*  endpoint, index   vs_endpoint and workspace.default.document_index     *)
(*  embedding_up   whether the embedding model endpoint can be reached     *)
(*  results_dict, input, response   the query cells' variables             *)
(*  runs, searched_at, gen_calls, last_gen   bookkeeping: the runs         *)
(*                 started (the table and the index remember which run's   *)
(*                 rows they hold, in their field gen), when the last      *)
(*                 search was made, the calls made to the chat model       *)
(***************************************************************************)
VARIABLES text, chunk_size, chunk_overlap, client, pc, docs, pd_docs, spark_df, error,
          tbl, endpoint, index, embedding_up, runs,
          qpc, query_text, num_results, results_dict, searched_at,
          input, response, qerror, gen_calls, last_gen

ingest_vars == <<text, chunk_size, chunk_overlap, client, pc, docs, pd_docs, spark_df,
                 error, runs>>
service_vars == <<tbl, endpoint, index, embedding_up>>
query_vars == <<qpc, query_text, num_results, results_dict, searched_at,
                input, response, qerror, gen_calls, last_gen>>
vars == <<ingest_vars, service_vars, query_vars>>

NoFrame == [cols |-> <<>>, rows |-> <<>>]
NoTable == [exists |-> FALSE, rows |-> <<>>, cdf |-> FALSE, gen |-> 0, prev_n |-> 0]
NoSearch == [started |-> 0, state |-> "none", idx_state |-> "none", idx_n |-> 0,
             gen |-> 0, first_sync_run |-> 0, run_rows |-> <<>>, prev_n |-> 0]
NoError == [site |-> "none", type |-> "none", question |-> "none",
            context_present |-> "none"]
NoGen == [outcome |-> "none", prompt |-> "", text |-> ""]

InitRest ==
    /\ docs = <<>>
    /\ pd_docs = NoFrame
    /\ spark_df = <<>>
    /\ error = "none"
    /\ client = FALSE
    /\ tbl = NoTable
    /\ index = NoIndex
    /\ qpc = "idle"
    /\ query_text = <<>>
    /\ num_results = 0
    /\ results_dict = NoResults
    /\ searched_at = NoSearch
    /\ input = ""
    /\ response = ""
    /\ qerror = NoError
    /\ gen_calls = 0
    /\ last_gen = NoGen

\* The notebook before its first run: no table, no index; the workspace may
\* or may not have an endpoint named vs_endpoint already.  The splitter's
\* parameters are literals of line 209; the runs are made without overlap,
\* the splitter alone (InitChunk) with every overlap.
Init ==
    /\ text = <<>>
    /\ chunk_size \in 1..MaxPipeChunk
    /\ chunk_overlap = 0
    /\ pc = "idle"
    /\ runs = 0
    /\ endpoint \in {"absent", "present"}
    /\ embedding_up = TRUE
    /\ InitRest

\* The splitter alone: cells 209-301 on any text and any parameters.
InitChunk ==
    /\ text \in SeqsUpTo(Chars, MaxTextLen)
    /\ chunk_size \in 0..MaxChunkSize
    /\ chunk_overlap \in (-1)..MaxChunkSize
    /\ pc = "splitter"
    /\ runs = 1
    /\ endpoint = "absent"
    /\ embedding_up = TRUE
    /\ InitRest

(***************************************************************************)
(* The ingestion cells, in the notebook's order.  An exception ends the    *)
(* run (pc = "failed"); the notebook can then be run again from the top.   *)
(***************************************************************************)
\* An exception ends the run.
Fail(e) ==
    /\ pc' = "failed"
    /\ error' = e

\* Lines 63-86: %pip install, then dbutils.library.restartPython().  A pass of
\* the notebook from the top starts here.  The restart ends the Python
\* process: every name of the notebook is unset (text, docs, pd_docs,
\* spark_df, client, index, results_dict, input), so a query under way cannot
\* go on and a later one starts again at get_index.  The table, the endpoint
\* and the index are the workspace's and stay.
RestartPython ==
    /\ pc \in {"idle", "done", "failed"}
    /\ runs < MaxRuns
    /\ runs' = runs + 1
    /\ pc' = "chat_model"
    /\ error' = "none"
    /\ text' = <<>>
    /\ docs' = <<>>
    /\ pd_docs' = NoFrame
    /\ spark_df' = <<>>
    /\ client' = FALSE
    /\ qpc' = "idle"
    /\ query_text' = <<>>
    /\ num_results' = 0
    /\ results_dict' = NoResults
    /\ searched_at' = NoSearch
    /\ input' = ""
    /\ response' = ""
    /\ qerror' = NoError
    /\ gen_calls' = 0
    /\ last_gen' = NoGen
    /\ UNCHANGED <<chunk_size, chunk_overlap, service_vars>>

\* Lines 107-117: chat_model = ChatDatabricks(...), then
\* chat_model.invoke("Who is data fudiciary?"), a first call of the chat model
\* with no retrieved context; it returns or raises.
TryChatModel ==
    /\ pc = "chat_model"
    /\ \/ pc' = "extract" /\ UNCHANGED error
       \/ Fail("chat_model.invoke")
    /\ UNCHANGED <<text, chunk_size, chunk_overlap, client, docs, pd_docs, spark_df,
                   runs, service_vars, query_vars>>

\* Lines 138-175: file_path, then the text of the PDF.  The cell assigns text
\* and no other name of the later cells.  Reading or opening the file can
\* raise (FileNotFoundError for a missing file), before text is assigned.
Extract ==
    /\ pc = "extract"
    /\ \/ /\ \E t \in SeqsUpTo(PipeChars, MaxDocLen) : text' = t
          /\ pc' = "splitter"
          /\ UNCHANGED error
       \/ /\ Fail("FileNotFoundError")
          /\ UNCHANGED text
    /\ UNCHANGED <<chunk_size, chunk_overlap, client, docs, pd_docs, spark_df, runs,
                   service_vars, query_vars>>

\* Line 209: RecursiveCharacterTextSplitter(chunk_size=..., chunk_overlap=...)
NewSplitter ==
    /\ pc = "splitter"
    /\ \/ /\ \/ SplitterRejects(chunk_size, chunk_overlap)
             \/ SplitterMayReject(chunk_size, chunk_overlap)
          /\ Fail("ValueError")
       \/ /\ ~SplitterRejects(chunk_size, chunk_overlap)
          /\ pc' = "chunk" /\ UNCHANGED error
    /\ UNCHANGED <<text, chunk_size, chunk_overlap, client, docs, pd_docs, spark_df, runs,
                   service_vars, query_vars>>

\* Line 212: docs = text_splitter.create_documents([raw_text])
Chunk ==
    /\ pc = "chunk"
    /\ IF CreateDocumentsRaises(text, chunk_size, chunk_overlap)
       THEN Fail("create_documents: IndexError") /\ UNCHANGED docs
       ELSE /\ docs' = CreateDocuments(text, chunk_size, chunk_overlap)
            /\ pc' = "first_doc"
            /\ UNCHANGED error
    /\ UNCHANGED <<text, chunk_size, chunk_overlap, client, pd_docs, spark_df, runs,
                   service_vars, query_vars>>

\* Lines 233 and 255: len(docs), then docs[0], which raises IndexError when
\* no chunk was made.
FirstDoc ==
    /\ pc = "first_doc"
    /\ IF docs = <<>>
       THEN Fail("docs[0]: IndexError")
       ELSE pc' = "frame" /\ UNCHANGED error
    /\ UNCHANGED <<text, chunk_size, chunk_overlap, client, docs, pd_docs, spark_df, runs,
                   service_vars, query_vars>>

\* Line 279: pd_docs = pd.DataFrame([doc.dict() for doc in docs])
Frame ==
    /\ pc = "frame"
    /\ pd_docs' = DataFrame(docs)
    /\ pc' = "ids"
    /\ UNCHANGED <<text, chunk_size, chunk_overlap, client, docs, spark_df, error, runs,
                   service_vars, query_vars>>

\* Line 301: pd_docs.insert(0, "id_pk", range(1, len(pd_docs) + 1))
InsertIds ==
    /\ pc = "ids"
    /\ pd_docs' = InsertIdPk(pd_docs)
    /\ pc' = "spark_df"
    /\ UNCHANGED <<text, chunk_size, chunk_overlap, client, docs, spark_df, error, runs,
                   service_vars, query_vars>>

\* Line 344: spark.createDataFrame(pd_docs[['id_pk','page_content']]).  The
\* frame of no documents has no page_content column: KeyError.
CreateSparkDF ==
    /\ pc = "spark_df"
    /\ IF HasColumn(pd_docs, "id_pk") /\ HasColumn(pd_docs, "page_content")
       THEN /\ spark_df' = pd_docs.rows
            /\ pc' = "write"
            /\ UNCHANGED error
       ELSE /\ Fail("KeyError")
            /\ UNCHANGED spark_df
    /\ UNCHANGED <<text, chunk_size, chunk_overlap, client, docs, pd_docs, runs,
                   service_vars, query_vars>>

\* Line 348: spark_df.write.format("delta").mode("overwrite")...saveAsTable(...)
\* One Delta commit: the table is created if need be and its rows replaced;
\* its properties stay.
SaveAsTable ==
    /\ pc = "write"
    /\ tbl' = [tbl EXCEPT !.exists = TRUE, !.gen = runs, !.prev_n = Len(tbl.rows),
                          !.rows = WriteOverwrite(tbl.rows, spark_df)]
    /\ pc' = "client"
    /\ UNCHANGED <<text, chunk_size, chunk_overlap, client, docs, pd_docs, spark_df, error,
                   runs, endpoint, index, embedding_up, query_vars>>

\* Lines 369-373: client = VectorSearchClient()
CreateClient ==
    /\ pc = "client"
    /\ client' = TRUE
    /\ pc' = "cdf"
    /\ UNCHANGED <<text, chunk_size, chunk_overlap, docs, pd_docs, spark_df, error,
                   runs, service_vars, query_vars>>

\* The cell of lines 395-398 without its ALTER TABLE.
SkipChangeDataFeed ==
    /\ pc = "cdf"
    /\ pc' = "delete_endpoint"
    /\ UNCHANGED <<text, chunk_size, chunk_overlap, client, docs, pd_docs, spark_df, error,
                   runs, tbl, endpoint, index, embedding_up, query_vars>>

\* Lines 395-398: ALTER TABLE ... SET TBLPROPERTIES (delta.enableChangeDataFeed = true)
EnableChangeDataFeed ==
    /\ pc = "cdf"
    /\ tbl' = [tbl EXCEPT !.cdf = TRUE]
    /\ pc' = "delete_endpoint"
    /\ UNCHANGED <<text, chunk_size, chunk_overlap, client, docs, pd_docs, spark_df, error,
                   runs, endpoint, index, embedding_up, query_vars>>

\* Line 401: client.delete_endpoint(name="vs_endpoint").  The request fails
\* when there is no such endpoint.  Deleting an endpoint takes its indexes
\* with it; the service may instead refuse while the endpoint has an index.
DeleteEndpoint ==
    /\ pc = "delete_endpoint"
    /\ \/ /\ endpoint = "absent"
          /\ Fail("delete_endpoint: RESOURCE_DOES_NOT_EXIST")
          /\ UNCHANGED <<endpoint, index>>
       \/ /\ endpoint = "present"
          /\ endpoint' = "absent"
          /\ index' = NoIndex
          /\ pc' = "create_endpoint"
          /\ UNCHANGED error
       \/ /\ endpoint = "present"
          /\ index.state # "absent"
          /\ Fail("delete_endpoint: endpoint has indexes")
          /\ UNCHANGED <<endpoint, index>>
    /\ UNCHANGED <<text, chunk_size, chunk_overlap, client, docs, pd_docs, spark_df, runs,
                   tbl, embedding_up, query_vars>>

\* Lines 404-407: client.create_endpoint(name="vs_endpoint", endpoint_type="STANDARD")
CreateEndpoint ==
    /\ pc = "create_endpoint"
    /\ IF endpoint = "present"
       THEN Fail("create_endpoint: RESOURCE_ALREADY_EXISTS") /\ UNCHANGED endpoint
       ELSE endpoint' = "present" /\ pc' = "create_index" /\ UNCHANGED error
    /\ UNCHANGED <<text, chunk_size, chunk_overlap, client, docs, pd_docs, spark_df, runs,
                   tbl, index, embedding_up, query_vars>>

\* What create_delta_sync_index needs of the workspace: the endpoint, no
\* index of the name yet, a source table with the change data feed on.
CanCreateIndex ==
    /\ endpoint = "present"
    /\ index.state = "absent"
    /\ tbl.exists /\ tbl.cdf

\* A handler that undoes the table write when the index cannot be made.
TableRolledBack(t) == NoTable

\* Lines 416-424 stand in no try/except and no cell follows a raised one:
\* the table stays as line 348 wrote it.
TableAsWritten(t) == t

\* Lines 416-424: vs_index = client.create_delta_sync_index(...).  The call
\* returns once the index is registered; its rows are filled in later by the
\* index's first sync (IndexSync).  When the embedding model endpoint cannot
\* be reached the service either refuses the call or registers the index and
\* fails to sync it: which of the two is the service's, so both are taken.
\* A refused call raises the client's own exception, which the cell lets
\* through.
CreateIndex ==
    /\ pc = "create_index"
    /\ \/ /\ CanCreateIndex
          /\ index' = [state |-> "building", rows |-> <<>>, gen |-> 0,
                       first_sync_run |-> 0]
          /\ pc' = "list_endpoints"
          /\ UNCHANGED <<error, tbl>>
       \/ /\ ~CanCreateIndex \/ ~embedding_up
          /\ Fail("create_delta_sync_index: Exception")
          /\ tbl' = TableAsWritten(tbl)
          /\ UNCHANGED index
    /\ UNCHANGED <<text, chunk_size, chunk_overlap, client, docs, pd_docs, spark_df, runs,
                   endpoint, embedding_up, query_vars>>

\* Lines 445-446: client.list_endpoints(), a read.
ListEndpoints ==
    /\ pc = "list_endpoints"
    /\ pc' = "list_indexes"
    /\ UNCHANGED <<text, chunk_size, chunk_overlap, client, docs, pd_docs, spark_df,
                   error, runs, service_vars, query_vars>>

\* Lines 467-468: client.list_indexes("vs_endpoint"), a read; the ingestion
\* cells end here.
ListIndexes ==
    /\ pc = "list_indexes"
    /\ pc' = "done"
    /\ UNCHANGED <<text, chunk_size, chunk_overlap, client, docs, pd_docs, spark_df,
                   error, runs, service_vars, query_vars>>

\* pipeline_type="CONTINUOUS": the index follows every write to the table.
PipelineContinuous == index.state \in {"building", "ready"}

\* pipeline_type="TRIGGERED": after its first sync the index is refreshed only
\* by index.sync(), which the notebook never calls.
PipelineTriggered == index.state = "building"

\* The service's sync of the index: it embeds the rows the source table holds
\* when it runs, and the index becomes queryable.  A new index gets its first
\* sync some time after create_delta_sync_index has returned.  The index
\* remembers which run's rows it holds (gen) and during which run it was
\* first synced.
IndexSync ==
    /\ PipelineTriggered
    /\ endpoint = "present"
    /\ embedding_up
    /\ tbl.exists
    /\ index' = [state |-> "ready", rows |-> tbl.rows, gen |-> tbl.gen,
                 first_sync_run |-> IF index.state = "ready"
                                    THEN index.first_sync_run ELSE runs]
    /\ index' # index
    /\ UNCHANGED <<ingest_vars, tbl, endpoint, embedding_up, query_vars>>

\* The embedding model endpoint goes down or comes back, at any time.  Only
\* create_delta_sync_index and the sync of a new index look at it, and each
\* sees either value: the change is taken where one of them can follow.
EmbeddingFlip ==
    /\ pc = "create_index" \/ index.state = "building"
    /\ embedding_up' = ~embedding_up
    /\ UNCHANGED <<ingest_vars, tbl, endpoint, index, query_vars>>

(***************************************************************************)
(* The query cells.  They can be run at any time, also between two         *)
(* ingestion cells of a later run.                                         *)
(***************************************************************************)
\* The query text is a literal of the search cell (line 517).
QueryTexts == {<<"a">>}

\* An exception of the vector search client or of the chat model: it leaves
\* the cell as it was raised, with nothing of the notebook's added to it.
Raised(site) == [site |-> site, type |-> "Exception", question |-> "none",
                 context_present |-> "none"]

\* A query starts at the cell of line 489.  What the properties keep of a
\* query (its error, its search's snapshot, its generation call) starts
\* afresh; the notebook's names keep their values.
StartQuery ==
    /\ qpc \in {"idle", "done", "failed"}
    /\ query_text' = <<>>
    /\ num_results' = 0
    /\ qpc' = "get_index"
    /\ qerror' = NoError
    /\ gen_calls' = 0
    /\ last_gen' = NoGen
    /\ searched_at' = NoSearch
    /\ UNCHANGED <<results_dict, input, response, ingest_vars, service_vars>>

\* The name client is unset (no cell of line 373 since the last restart):
\* the cell of line 490 raises NameError.
ClientUnset == [Raised("get_index") EXCEPT !.type = "NameError"]

\* A get_index that registers the index when there is none.
GetOrCreateIndex ==
    /\ qpc = "get_index"
    /\ IF ~client
       THEN qpc' = "failed" /\ qerror' = ClientUnset /\ UNCHANGED index
       ELSE /\ qpc' = "search"
            /\ index' = IF index.state = "absent"
                        THEN [state |-> "building", rows |-> <<>>, gen |-> 0,
                              first_sync_run |-> 0]
                        ELSE index
            /\ UNCHANGED qerror
    /\ UNCHANGED <<query_text, num_results, results_dict, searched_at, input,
                   response, gen_calls, last_gen, ingest_vars, tbl,
                   endpoint, embedding_up>>

\* Lines 490-493: index = client.get_index(index_name=...); index.describe()
GetIndex ==
    /\ qpc = "get_index"
    /\ IF ~client
       THEN qpc' = "failed" /\ qerror' = ClientUnset
       ELSE IF index.state = "absent"
       THEN qpc' = "failed" /\ qerror' = Raised("get_index")
       ELSE qpc' = "search" /\ UNCHANGED qerror
    /\ UNCHANGED <<query_text, num_results, results_dict, searched_at, input,
                   response, gen_calls, last_gen, ingest_vars, service_vars>>

\* How far the last run started has come: "none" before the first run,
\* "started" until its table write, "written" from then until its index is
\* registered ("done") or a cell raises ("failed").
RunState ==
    CASE pc = "idle" -> "none"
      [] pc \in {"list_endpoints", "list_indexes", "done"} -> "done"
      [] pc = "failed" -> "failed"
      [] pc \in {"client", "cdf", "delete_endpoint", "create_endpoint",
                 "create_index"}
           -> "written"
      [] OTHER -> "started"

\* When the search was made: the runs started by then and how far the last of
\* them had come, the index's state, size and run, the rows the last run made
\* and the number of rows the table held before its last write.
Now == [started |-> runs, state |-> RunState, idx_state |-> index.state,
        idx_n |-> Len(index.rows), gen |-> index.gen,
        first_sync_run |-> index.first_sync_run, run_rows |-> spark_df,
        prev_n |-> tbl.prev_n]

\* Lines 516-520: results_dict = index.similarity_search(query_text=...,
\* columns=["id_pk", "page_content"], num_results=...).  An index that is gone
\* raises; one that has not had its first sync raises or answers with no rows.
Search ==
    /\ qpc = "search"
    /\ \E q \in QueryTexts : query_text' = q
    /\ \E k \in 1..MaxK : num_results' = k
    /\ \/ /\ index.state = "absent"
          /\ qpc' = "failed" /\ qerror' = Raised("similarity_search")
          /\ UNCHANGED <<results_dict, searched_at>>
       \/ /\ index.state = "building"
          /\ qpc' = "failed" /\ qerror' = Raised("similarity_search")
          /\ UNCHANGED <<results_dict, searched_at>>
       \/ /\ index.state = "building"
          /\ results_dict' = NoResults
          /\ searched_at' = Now
          /\ qpc' = "prompt"
          /\ UNCHANGED qerror
       \/ /\ index.state = "ready"
          /\ \E arr \in SimilaritySearch(index.rows, query_text',
                                         num_results') :
                results_dict' = [row_count |-> Len(arr), data_array |-> arr]
          /\ searched_at' = Now
          /\ qpc' = "prompt"
          /\ UNCHANGED qerror
    /\ UNCHANGED <<input, response, gen_calls, last_gen, ingest_vars,
                   service_vars>>

\* Line 545: input = "Answer Question " + str(results_dict) + " Question: ..."
Prompt ==
    /\ qpc = "prompt"
    /\ input' = BuildInput(results_dict)
    /\ qpc' = "invoke"
    /\ UNCHANGED <<query_text, num_results, results_dict, searched_at, response,
                   qerror, gen_calls, last_gen, ingest_vars, service_vars>>

\* What the cell shows for the chat model's reply.
ReplyTrimmedToNonEmpty(reply) == IF reply = "" THEN "(no answer)" ELSE reply

ReplyAsReturned(reply) == reply

\* Line 577: chat_model.invoke(str(input)).  One request; the model raises,
\* or replies with a text that may be empty, and the cell's value is the reply.
Invoke ==
    /\ qpc = "invoke"
    /\ gen_calls' = gen_calls + 1
    /\ \E out \in {"raises", "empty", "text"} :
          /\ last_gen' = [outcome |-> out, prompt |-> input,
                          text |-> IF out = "text" THEN "an answer" ELSE ""]
          /\ IF out = "raises"
             THEN qpc' = "failed" /\ qerror' = Raised("invoke") /\ UNCHANGED response
             ELSE /\ qpc' = "done"
                  /\ response' = ReplyAsReturned(last_gen'.text)
                  /\ UNCHANGED qerror
    /\ UNCHANGED <<query_text, num_results, results_dict, searched_at, input,
                   ingest_vars, service_vars>>

Next ==
    \/ RestartPython \/ TryChatModel \/ Extract \/ NewSplitter \/ Chunk \/ FirstDoc \/ Frame \/ InsertIds \/ CreateSparkDF
    \/ SaveAsTable \/ CreateClient \/ EnableChangeDataFeed \/ DeleteEndpoint
    \/ CreateEndpoint \/ CreateIndex \/ ListEndpoints \/ ListIndexes \/ IndexSync \/ EmbeddingFlip
    \/ StartQuery \/ GetIndex \/ Search \/ Prompt \/ Invoke

Spec == Init /\ [][Next]_vars

NextChunk == NewSplitter \/ Chunk \/ FirstDoc \/ Frame \/ InsertIds

ChunkSpec == InitChunk /\ [][NextChunk]_vars

(***************************************************************************)
(* Helpers of the properties.                                              *)
(***************************************************************************)
NonWs(s) == SelectSeq(s, LAMBDA c : c \notin Whitespace)

IsSubstring(p, s) == p = <<>> \/ Contains(s, p)

RECURSIVE TotalLen(_)
TotalLen(ds) == IF ds = <<>> THEN 0 ELSE Len(NonWs(Head(ds))) + TotalLen(Tail(ds))

\* Whether the chunks ds[i..], each with an overlap of at most ov characters
\* shared with the text built so far removed from its start, continue built
\* to exactly target (all three without whitespace).
RECURSIVE Rebuilds(_, _, _, _, _)
Rebuilds(ds, i, built, target, ov) ==
    IF i > Len(ds) THEN built = target
    ELSE
      LET c == NonWs(ds[i]) IN
      \E o \in 0..Min(ov, Min(Len(c), Len(built))) :
         /\ SubSeq(c, 1, o) = SubSeq(built, Len(built) - o + 1, Len(built))
         /\ LET b2 == built \o SubSeq(c, o + 1, Len(c)) IN
            /\ Len(b2) <= Len(target)
            /\ b2 = SubSeq(target, 1, Len(b2))
            /\ Rebuilds(ds, i + 1, b2, target, ov)

Chunked == pc \in {"first_doc", "frame", "ids", "spark_df"}

ValidParams == 0 <= chunk_overlap /\ chunk_overlap < chunk_size

IdsInserted == HasColumn(pd_docs, "id_pk")

(***************************************************************************)
(* C7.  For every text and every valid (chunk_size, overlap), 0 <= overlap  *)
(* < chunk_size: every chunk is a piece of the text as it stands, and the  *)
(* chunks, each without an overlap of at most `overlap` characters shared  *)
(* with its predecessors, spell in order exactly the text's non-whitespace *)
(* characters: none is dropped or reordered.                               *)
(***************************************************************************)
ChunksReconstructText ==
    (Chunked /\ ValidParams) =>
        /\ \A i \in 1..Len(docs) : docs[i] # <<>> /\ IsSubstring(docs[i], text)
        /\ Rebuilds(docs, 1, <<>>, NonWs(text), chunk_overlap)

\* Two chunks or more that do share characters.
ChunksOverlapWitness ==
    /\ Chunked /\ ValidParams
    /\ Len(docs) >= 2
    /\ TotalLen(docs) > Len(NonWs(text))
    /\ \E i \in 1..Len(text) : text[i] \in Whitespace

(***************************************************************************)
(* C6.  Once a run has inserted the id column, the row at position i holds *)
(* the i-th chunk and the id i, whatever ran before: the ids are exactly   *)
(* 1..N, increasing in input order, and the same for the same input.       *)
(***************************************************************************)
IdsArePositions ==
    pc \in {"spark_df", "write", "client", "cdf", "delete_endpoint",
            "create_endpoint", "create_index", "list_endpoints",
            "list_indexes", "done"} =>
         /\ IdsInserted
         /\ Len(pd_docs.rows) = Len(docs)
         /\ \A i \in 1..Len(docs) :
               /\ pd_docs.rows[i].id_pk = i
               /\ pd_docs.rows[i].page_content = docs[i]
         /\ {pd_docs.rows[i].id_pk : i \in 1..Len(docs)} = 1..Len(docs)
         /\ \A i, j \in 1..Len(docs) :
               i < j => pd_docs.rows[i].id_pk < pd_docs.rows[j].id_pk

\* Three chunks or more have their ids.
IdsWitness == IdsInserted /\ Len(pd_docs.rows) >= 3

(***************************************************************************)
(* Helpers of the properties about the index and the queries.              *)
(***************************************************************************)
Searched == searched_at.idx_state # "none"

Results == results_dict.data_array

\* The generation call of this query cycle has been made.
Invoked == last_gen.outcome # "none"

(***************************************************************************)
(* C1.  A search made when the last run started has ended well (a second   *)
(* or later sync has completed and no other has begun) returns only rows   *)
(* that run wrote: no id beyond its row count, no row of an earlier run,   *)
(* even when the table held more rows before.                              *)
(***************************************************************************)
NoStaleIdsAfterSync ==
    (Searched /\ searched_at.state = "done") =>
        /\ searched_at.gen \in {0, searched_at.started}
        /\ \A i \in 1..Len(Results) :
              /\ Results[i].id_pk \in 1..Len(searched_at.run_rows)
              /\ searched_at.run_rows[Results[i].id_pk].page_content
                    = Results[i].page_content

\* A search after the second run, which wrote fewer rows than the first.
SecondSyncSearchWitness ==
    /\ Searched /\ searched_at.state = "done"
    /\ searched_at.started = 2
    /\ searched_at.prev_n > Len(searched_at.run_rows)
    /\ Len(Results) >= 1

(***************************************************************************)
(* C2 as stated: a search made while a later sync is in progress, after    *)
(* its table write and before its return, never observes that sync's rows. *)
(***************************************************************************)
SearchNeverSeesSyncInProgress ==
    (Searched /\ searched_at.state = "written") =>
        searched_at.gen # searched_at.started

(***************************************************************************)
(* C2 as amended.  Once the index has had its first sync it holds the rows *)
(* of one generation and keeps them until it is deleted: the table write   *)
(* of a later sync is invisible to it, and a search made while that sync   *)
(* is in progress, on an index synced before the sync began, returns an    *)
(* earlier generation's rows.  The rows of one result are the rows of one  *)
(* generation.                                                             *)
(***************************************************************************)
SyncedIndexHidesLaterWrite ==
    /\ [][(index.state = "ready" /\ index'.state = "ready") =>
            (index'.rows = index.rows /\ index'.gen = index.gen)]_vars
    /\ []((Searched /\ searched_at.state = "written"
             /\ searched_at.idx_state = "ready"
             /\ searched_at.first_sync_run < searched_at.started) =>
               searched_at.gen < searched_at.started)
    /\ []((Searched /\ searched_at.gen = searched_at.started) =>
             \A i \in 1..Len(Results) :
                 /\ Results[i].id_pk \in 1..Len(searched_at.run_rows)
                 /\ searched_at.run_rows[Results[i].id_pk].page_content
                       = Results[i].page_content)

\* A search during the second run, after its table write, answered from the
\* rows of the first.
SearchDuringSyncWitness ==
    /\ Searched /\ searched_at.state = "written"
    /\ searched_at.started = 2
    /\ searched_at.gen = 1
    /\ Len(Results) >= 1

(***************************************************************************)
(* C3 as stated: the teardown step is never an error, so that a sync       *)
(* succeeds from a workspace without endpoint or index as from one that    *)
(* has them.                                                               *)
(***************************************************************************)
TeardownNeverFails ==
    ~(pc = "failed" /\ error = "delete_endpoint: RESOURCE_DOES_NOT_EXIST")

(***************************************************************************)
(* C4 as stated: when the embedding model cannot be reached as the index   *)
(* is to be created, the run ends in IndexUnavailableError, the table      *)
(* holds the rows this run wrote and there is no index to query for them.  *)
(***************************************************************************)
EmbeddingDownIsIndexUnavailableError ==
    [][(pc = "create_index" /\ ~embedding_up /\ pc' # pc) =>
          /\ pc' = "failed" /\ error' = "IndexUnavailableError"
          /\ tbl' = tbl /\ tbl'.rows = spark_df
          /\ index'.state = "absent"]_vars

(***************************************************************************)
(* C4 as amended.  When the embedding model cannot be reached as the index *)
(* is to be created, the table is left as this run wrote it, and the run   *)
(* either ends in the client's own exception, with no index to query, or   *)
(* goes on without an error over an index that holds no rows.  After the   *)
(* index cell, however it ended, the table holds exactly the rows of this  *)
(* run; and an index takes rows only while the embedding model can be      *)
(* reached.                                                                *)
(***************************************************************************)
EmbeddingDownKeepsStore ==
    /\ [][(pc = "create_index" /\ ~embedding_up /\ pc' # pc) =>
            /\ tbl' = tbl
            /\ \/ /\ pc' = "failed"
                  /\ error' = "create_delta_sync_index: Exception"
                  /\ index'.state = "absent"
               \/ /\ pc' = "list_endpoints"
                  /\ error' = "none"
                  /\ index'.state = "building" /\ index'.rows = <<>>]_vars
    /\ []((\/ pc \in {"list_endpoints", "list_indexes", "done"}
           \/ pc = "failed" /\ error = "create_delta_sync_index: Exception") =>
            /\ tbl.exists
            /\ tbl.rows = spark_df
            /\ tbl.rows = pd_docs.rows
            /\ tbl.gen = runs)
    /\ []((pc = "failed" /\ error = "create_delta_sync_index: Exception") =>
            index.state = "absent")
    /\ [][(index'.rows # index.rows /\ index'.rows # <<>>) => embedding_up]_vars

\* A second run ended in the client's exception, over the table of the first.
EmbeddingDownWitness ==
    /\ pc = "failed" /\ error = "create_delta_sync_index: Exception"
    /\ ~embedding_up
    /\ runs = 2
    /\ Len(tbl.rows) >= 1
    /\ tbl.prev_n >= 1

(***************************************************************************)
(* C9 as stated: when the chat model fails or returns no content, the      *)
(* query ends in a GenerationError that carries the question and whether   *)
(* the retrieval result was non-empty.                                     *)
(***************************************************************************)
GenerationFailureIsReported ==
    (Invoked /\ last_gen.outcome \in {"raises", "empty"}) =>
        /\ qpc = "failed"
        /\ qerror.type = "GenerationError"
        /\ qerror.question = PromptQuestion
        /\ qerror.context_present = (IF Results = <<>> THEN "false" ELSE "true")

(***************************************************************************)
(* C9 as amended.  With an empty retrieval result one generation call is   *)
(* still made, its prompt holding no chunk content.  When the chat model   *)
(* raises, the query ends with that exception as raised: it carries        *)
(* neither the question nor a context flag.  When the chat model returns   *)
(* no content, the query ends without error, its answer the empty text.    *)
(***************************************************************************)
GenerationFailurePropagates ==
    /\ (Invoked /\ Results = <<>>) =>
          /\ gen_calls = 1
          /\ last_gen.prompt = PromptPrefix \o DictStr(NoResults) \o PromptQuestion
    /\ (Invoked /\ last_gen.outcome = "raises") =>
          /\ qpc = "failed"
          /\ qerror.site = "invoke"
          /\ qerror.type = "Exception"
          /\ qerror.question = "none"
          /\ qerror.context_present = "none"
    /\ (Invoked /\ last_gen.outcome = "empty") =>
          /\ qpc = "done"
          /\ qerror = NoError
          /\ response = ""

\* The chat model raised on the prompt of an empty retrieval result.
EmptyContextFailureWitness ==
    /\ Invoked /\ last_gen.outcome = "raises"
    /\ Searched /\ Results = <<>>
    /\ qpc = "failed"

(***************************************************************************)
(* C10 as stated: the prompt is the retrieved contents, in order, followed *)
(* by the question, and nothing else.                                      *)
(***************************************************************************)
PromptIsContentsThenQuestion ==
    Invoked => last_gen.prompt = ConcatContents(Results) \o PromptQuestion

(***************************************************************************)
(* C10 as amended.  The prompt is "Answer Question ", then the printed     *)
(* search response (its column manifest and row count, and each retrieved  *)
(* row's id, content and score, in retrieval order), then " Question: " and*)
(* the question; one generation call is made per query and the reply is    *)
(* the query's answer as it came.                                          *)
(***************************************************************************)
PromptIsPrefixResponseQuestion ==
    /\ qpc = "invoke" => input = PromptPrefix \o DictStr(results_dict) \o PromptQuestion
    /\ Invoked =>
          /\ last_gen.prompt = PromptPrefix \o DictStr(results_dict) \o PromptQuestion
          /\ gen_calls = 1
          /\ last_gen.outcome # "raises" => (qpc = "done" /\ response = last_gen.text)
    /\ ~Invoked => gen_calls = 0

\* Two rows were retrieved and the chat model's answer came back.
AnswerWitness ==
    /\ Invoked /\ last_gen.outcome = "text"
    /\ Len(Results) = 2
    /\ Results[1].score > Results[2].score
    /\ response = "an answer"

(***************************************************************************)
(* Helpers of the properties about the order of the ingestion cells.       *)
(***************************************************************************)
\* The cells of a run in the notebook's order, by the pc that waits for them.
CellOrder == <<"chat_model", "extract", "splitter", "chunk", "first_doc",
               "frame", "ids", "spark_df", "write", "client", "cdf",
               "delete_endpoint", "create_endpoint", "create_index",
               "list_endpoints", "list_indexes", "done">>

Rank(p) == IF \E i \in 1..Len(CellOrder) : CellOrder[i] = p
           THEN CHOOSE i \in 1..Len(CellOrder) : CellOrder[i] = p
           ELSE 0

Between(p, from, to) == Rank(p) >= Rank(from) /\ Rank(p) <= Rank(to)

\* The step is the restart that begins a run.
RunStarts == pc \in {"idle", "done", "failed"} /\ pc' = "chat_model"

(***************************************************************************)
(* C11.  A run takes its cells in the order extract, chunk, assign ids,    *)
(* persist, enable the change data feed, delete the endpoint (and with it  *)
(* the index), create the endpoint and the index: a run begins with the    *)
(* restart, a cell starts where the one before it returned, a step is one  *)
(* call of one cell (the restart alone also ends a query under way), each  *)
(* effect is made by its own cell and not before, and an index is created  *)
(* only over a table this run has written and whose change data feed is    *)
(* on.                                                                     *)
(***************************************************************************)
CellsRunInOrder ==
    /\ [][pc' # pc =>
            \/ RunStarts /\ runs' = runs + 1
            \/ Rank(pc) >= 1 /\ pc # "done" /\ pc' = "failed" /\ runs' = runs
            \/ Rank(pc) >= 1 /\ Rank(pc') = Rank(pc) + 1 /\ runs' = runs]_vars
    /\ [][(pc' # pc /\ qpc' # qpc) => (RunStarts /\ qpc' = "idle")]_vars
    /\ [][/\ text' # text => (pc = "extract" \/ (RunStarts /\ text' = <<>>))
          /\ docs' # docs => (pc = "chunk" \/ (RunStarts /\ docs' = <<>>))
          /\ pd_docs' # pd_docs =>
                (pc \in {"frame", "ids"} \/ (RunStarts /\ pd_docs' = NoFrame))
          /\ spark_df' # spark_df =>
                (pc = "spark_df" \/ (RunStarts /\ spark_df' = <<>>))
          /\ client' # client => (pc = "client" \/ (RunStarts /\ ~client'))
          /\ (tbl'.rows # tbl.rows \/ tbl'.gen # tbl.gen \/ tbl'.exists # tbl.exists)
                => pc = "write"
          /\ tbl'.cdf # tbl.cdf => pc = "cdf"
          /\ endpoint' # endpoint => pc \in {"delete_endpoint", "create_endpoint"}
          /\ (index.state # "absent" /\ index'.state = "absent")
                => pc = "delete_endpoint"
          /\ (index.state = "absent" /\ index'.state # "absent")
                => (pc = "create_index" /\ tbl.cdf /\ tbl.gen = runs
                    /\ tbl.rows = spark_df)]_vars
    /\ [](/\ Between(pc, "first_doc", "done")
                => docs = CreateDocuments(text, chunk_size, chunk_overlap)
          /\ Between(pc, "frame", "done") => docs # <<>>
          /\ Between(pc, "spark_df", "done") => pd_docs = InsertIdPk(DataFrame(docs))
          /\ Between(pc, "cdf", "done") =>
                (tbl.exists /\ tbl.gen = runs /\ tbl.rows = spark_df)
          /\ Between(pc, "cdf", "done") => client
          /\ Between(pc, "delete_endpoint", "done") => tbl.cdf
          /\ pc = "create_endpoint" => (endpoint = "absent" /\ index.state = "absent")
          /\ pc = "create_index" => (endpoint = "present" /\ index.state = "absent")
          /\ index.state # "absent" => (tbl.exists /\ tbl.cdf))

\* A second run went through every cell and its index was created.
CellsRunInOrderWitness ==
    /\ pc = "done" /\ runs = 2
    /\ index.state = "building"
    /\ tbl.cdf /\ tbl.gen = 2 /\ tbl.prev_n >= 1
    /\ Len(tbl.rows) >= 1

(***************************************************************************)
(* Helpers of the properties about what the query cells leave alone.       *)
(***************************************************************************)
\* The index as the spec names its states: Stale is an index that holds the
\* rows of an earlier write than the table's last.
Lifecycle ==
    CASE index.state = "absent" -> "Absent"
      [] index.state = "building" -> "Building"
      [] index.state = "ready" /\ index.gen = tbl.gen -> "Ready"
      [] OTHER -> "Stale"

\* A step of a query cell: one that changes what the query cells assign and
\* is not the restart that begins a run.
QueryStep == (qpc' # qpc \/ query_vars' # query_vars) /\ ~RunStarts

(***************************************************************************)
(* C12.  The query cells (get_index, similarity_search, the prompt, the    *)
(* chat model call), whether they end well or raise, leave the table, the  *)
(* endpoint, the index's rows and the lifecycle state as they were.  The   *)
(* table changes only in the write and change-feed cells of an ingestion   *)
(* run; the index and its lifecycle state change only in a cell of an      *)
(* ingestion run or when the index a run created converges (its first      *)
(* sync, Building to Ready, with the table's rows).                        *)
(***************************************************************************)
QueriesAreReadOnly ==
    /\ [][QueryStep => /\ tbl' = tbl
                       /\ index' = index
                       /\ endpoint' = endpoint
                       /\ Lifecycle' = Lifecycle
                       /\ pc' = pc]_vars
    /\ [][tbl' # tbl => (pc \in {"write", "cdf"} /\ pc' # pc)]_vars
    /\ [][index' # index =>
            \/ pc \in {"delete_endpoint", "create_index"} /\ pc' # pc
            \/ /\ pc' = pc
               /\ Lifecycle = "Building" /\ Lifecycle' = "Ready"
               /\ index'.rows = tbl.rows]_vars
    /\ [][Lifecycle' # Lifecycle =>
            \/ pc \in {"write", "delete_endpoint", "create_index"} /\ pc' # pc
            \/ pc' = pc /\ Lifecycle = "Building" /\ Lifecycle' = "Ready"]_vars

\* A query answered from a stale index: the table holds a later run's rows,
\* the index still the earlier run's, after the search and the answer.
QueryOnStaleIndexWitness ==
    /\ qpc = "done" /\ Invoked
    /\ Len(Results) >= 1
    /\ Lifecycle = "Stale"
    /\ index.gen = 1 /\ tbl.gen = 2
    /\ index.rows # tbl.rows

=============================================================================
